---- MODULE Spec2Model ----
(***************************************************************************)
(* Model of the service authentication core of the ATT&CK Workbench REST   *)
(* API: the challenge / token service of app/services/authn-service.js     *)
(* (createChallenge, createToken over a NodeCache), the request            *)
(* authenticator (authenticate) and the middleware chains of the           *)
(* user-accounts routes.                                                   *)
(*                                                                         *)
(* Time is in milliseconds, as Date.now() gives it.  Every exported        *)
(* function is synchronous, so one call is one atomic step of the single   *)
(* JavaScript thread.                                                      *)
(***************************************************************************)
EXTENDS Integers, Sequences, FiniteSets, TLC

VARIABLES
    cache,      \* the NodeCache: a set of entries [k, v, t]
    now,        \* Date.now(), milliseconds
    hs,         \* per service name: the handshake since the last issued challenge
    last,       \* the call the latest step made and its outcome, if it made one
    pending,    \* createToken requests of one burst: waiting, or answered
    flags,      \* config.serviceAuthn: the enable flags of the two bearer strategies
    req,        \* the HTTP request travelling through a route's middleware chain
    client,     \* what a calling service keeps of the answers it received
    tally       \* per service name: challenges and tokens issued so far

vars == <<cache, now, hs, last, pending, flags, req, client, tally>>

----------------------------------------------------------------------------
(* Bounds of the model *)

\* number of distinct values the random source is allowed to produce
NumNonces == 2
\* clock advances in one behaviour
MaxTicks == 1
\* createToken requests in flight at once
MaxPending == 2
\* successful calls counted per service name
MaxIssued == 3

----------------------------------------------------------------------------
(* Configuration: config.serviceAuthn *)

\* config.serviceAuthn.apikey.serviceAccounts
serviceAccounts ==
    { [name |-> "svc-A", apikey |-> "k1"],
      [name |-> "svc-B", apikey |-> "k2"] }

\* config.serviceAuthn.apikey.tokenTimeout, seconds
tokenTimeout == 30

\* config.serviceAuthn.apikey.secret
signingSecret == "jwt-secret"

\* the ttl createChallenge gives cache.set, seconds
challengeTtl == 60

\* the service names a caller may send: the registered ones, a name that
\* differs from a registered one in case only, and the name of no service
ServiceNames == {"svc-A", "svc-B", "SVC-A"}

\* s.toLowerCase(), on the names of the model
ToLower(s) == IF s = "SVC-A" THEN "svc-A" ELSE s

----------------------------------------------------------------------------
(* crypto *)

\* crypto.randomBytes(48).toString('base64'): any value of the random source
generateNonce == 1 .. NumNonces

\* crypto.createHmac('sha256', key).update(data).digest('hex')
Hmac(key, data) == [alg |-> "sha256", key |-> key, data |-> data]

\* a hex string that is the digest of no nonce under any configured key
WrongDigest == Hmac("none", 0)

\* the challengeHash values a caller may send
ChallengeHashes ==
    { Hmac(s.apikey, n) : s \in serviceAccounts, n \in generateNonce }
        \cup {WrongDigest}

----------------------------------------------------------------------------
(* NodeCache *)

NoValue == [challenge |-> 0, apikey |-> "none"]

\* an entry is live unless it has a deadline and the deadline has passed
CacheLive(e, t) == ~(e.t # 0 /\ e.t < t)

\* cache.set that adds the entry and leaves the key's earlier entry in place
CacheSet_Append(c, key, value, ttl, t) ==
    c \cup { [k |-> key, v |-> value, t |-> IF ttl = 0 THEN 0 ELSE t + ttl * 1000] }

\* cache.set called without its ttl argument: the entry never expires
CacheSet_NoTtl(c, key, value, ttl, t) ==
    { e \in c : e.k # key } \cup { [k |-> key, v |-> value, t |-> 0] }

\* a cache.set that leaves the deadline of an entry it replaces as it was
CacheSet_KeepDeadline(c, key, value, ttl, t) ==
    { e \in c : e.k # key }
        \cup { [k |-> key, v |-> value,
                t |-> IF \E e \in c : e.k = key
                      THEN (CHOOSE e \in c : e.k = key).t
                      ELSE IF ttl = 0 THEN 0 ELSE t + ttl * 1000] }

\* cache.set(key, value, ttl): replaces the entry of the key
CacheSet(c, key, value, ttl, t) ==
    { e \in c : e.k # key }
        \cup { [k |-> key, v |-> value, t |-> IF ttl = 0 THEN 0 ELSE t + ttl * 1000] }

\* cache.get(key): the value of the key's live entry, or undefined
CacheGet(c, key, t) ==
    IF \E e \in c : e.k = key /\ CacheLive(e, t)
    THEN (CHOOSE e \in c : e.k = key /\ CacheLive(e, t)).v
    ELSE NoValue

\* a take that empties the cache
CacheAfterTake_Flush(c, key) == {}

\* cache.get in the place of cache.take: the entry stays
CacheAfterTake_Keep(c, key) == c

\* the cache after cache.take(key): get deletes an expired entry, take
\* deletes the entry it returns
CacheAfterTake(c, key) == { e \in c : e.k # key }

----------------------------------------------------------------------------
(* jsonwebtoken *)

\* Math.floor(Date.now() / 1000)
Seconds(t) == t \div 1000

\* jwt.sign(payload, secret): the payload, with the iat claim jsonwebtoken
\* adds, under an HS256 signature of the secret
JwtSign(payload, secret, t) ==
    [ serviceName |-> payload.serviceName,
      exp         |-> payload.exp,
      iat         |-> Seconds(t),
      sig         |-> secret ]

\* the Bearer Token Verifier: the signature under the signing secret, then
\* the expiry; the Principal carries the asserted service name
bearerVerify(token, secret, t) ==
    IF token.sig # secret
    THEN [err |-> "InvalidSignature", serviceName |-> ""]
    ELSE IF Seconds(t) > token.exp
    THEN [err |-> "Expired", serviceName |-> ""]
    ELSE [err |-> "ok", serviceName |-> token.serviceName]

NoToken == [serviceName |-> "", exp |-> 0, iat |-> 0, sig |-> ""]

----------------------------------------------------------------------------
(* The challenge / token service *)

serviceNotFound == "Service not found"
invalidChallengeHash == "Invalid challenge hash"
challengeNotFound == "Challenge not found"
NoError == "ok"

\* a lookup that ignores case
serviceFind_IgnoreCase(serviceName) ==
    { s \in serviceAccounts : ToLower(s.name) = ToLower(serviceName) }

\* services.find(s => s.name === serviceName)
serviceFind(serviceName) == { s \in serviceAccounts : s.name = serviceName }

\* a comparison that accepts every hash
digestMatches_Always(digest, challengeHash) == TRUE

\* digest !== challengeHash is false
digestMatches(digest, challengeHash) == digest = challengeHash

\* a payload whose exp leaves the timeout out
tokenPayload_NoTimeout(serviceName, t) ==
    [serviceName |-> serviceName, exp |-> Seconds(t)]

\* the payload createToken signs
tokenPayload(serviceName, t) ==
    [serviceName |-> serviceName, exp |-> Seconds(t) + tokenTimeout]

\* a createToken that compares the hash before it looks whether cache.take
\* returned an entry
createTokenResult_HashFirst(serviceName, challengeHash, cachedValue, t) ==
    IF ~digestMatches(Hmac(cachedValue.apikey, cachedValue.challenge), challengeHash)
    THEN [err |-> invalidChallengeHash, token |-> NoToken, expiresIn |-> 0]
    ELSE IF cachedValue = NoValue
    THEN [err |-> challengeNotFound, token |-> NoToken, expiresIn |-> 0]
    ELSE [err |-> NoError,
          token |-> JwtSign(tokenPayload(serviceName, t), signingSecret, t),
          expiresIn |-> tokenTimeout]

\* what createToken returns or throws, given what cache.take returned
createTokenResult(serviceName, challengeHash, cachedValue, t) ==
    IF cachedValue = NoValue
    THEN [err |-> challengeNotFound, token |-> NoToken, expiresIn |-> 0]
    ELSE IF ~digestMatches(Hmac(cachedValue.apikey, cachedValue.challenge), challengeHash)
    THEN [err |-> invalidChallengeHash, token |-> NoToken, expiresIn |-> 0]
    ELSE [err |-> NoError,
          token |-> JwtSign(tokenPayload(serviceName, t), signingSecret, t),
          expiresIn |-> tokenTimeout]

\* a completed call, as the caller saw it; replaced is the nonce of the live
\* challenge a createChallenge call found in the cache (0: it found none)
CallRecord(op, serviceName, challengeHash, err, challenge, token, expiresIn) ==
    [ op |-> op, name |-> serviceName, hash |-> challengeHash,
      replaced |-> IF op = "createChallenge" /\ err = NoError
                   THEN CacheGet(cache, serviceName, now).challenge ELSE 0,
      err |-> err, challenge |-> challenge, token |-> token, expiresIn |-> expiresIn ]

NoCall == [ op |-> "none", name |-> "", hash |-> WrongDigest, replaced |-> 0,
            err |-> NoError, challenge |-> 0, token |-> NoToken, expiresIn |-> 0 ]

\* the handshake of a name for which no challenge was issued yet.  nonce and
\* at: the challenge createChallenge issued last and when; attempts and
\* tokens: the createToken calls made for the name since, and their
\* successes, counted 0, 1, "2 or more"
NoHandshake == [nonce |-> 0, at |-> 0, attempts |-> 0, tokens |-> 0]

Count(n) == IF n < 2 THEN n + 1 ELSE n

\* the challenge of serviceName is outstanding and challengeHash is its proof
ProofOfOutstanding(h, serviceName, challengeHash) ==
    /\ serviceFind(serviceName) # {}
    /\ h.nonce # 0 /\ h.attempts = 0
    /\ \E s \in serviceFind(serviceName) : challengeHash = Hmac(s.apikey, h.nonce)

\* the body of exports.createChallenge.  Of the requests of the burst, the answered ones
\* of the name belong to the challenge this call replaces, and the waiting
\* ones now face the new challenge.
runCreateChallenge(serviceName) ==
    IF serviceFind(serviceName) = {}
    THEN /\ last' = CallRecord("createChallenge", serviceName,
                             WrongDigest, serviceNotFound, 0, NoToken, 0)
         /\ UNCHANGED <<cache, hs, pending>>
    ELSE \E challenge \in generateNonce :
         LET service == CHOOSE s \in serviceFind(serviceName) : TRUE IN
         /\ cache' = CacheSet(cache, serviceName,
                         [challenge |-> challenge, apikey |-> service.apikey],
                         challengeTtl, now)
         /\ last' = CallRecord("createChallenge", serviceName,
                             WrongDigest, NoError, challenge, NoToken, 0)
         /\ hs' = [hs EXCEPT ![serviceName] =
                     [nonce |-> challenge, at |-> now,
                      attempts |-> 0, tokens |-> 0]]
         /\ pending' =
             { [p EXCEPT !.valid = IF p.name = serviceName
                                   THEN ProofOfOutstanding(hs'[serviceName],
                                                           p.name, p.hash)
                                   ELSE @] :
                 p \in { q \in pending :
                             q.name # serviceName \/ q.err = "waiting" } }

\* exports.createChallenge, called
createChallenge(serviceName) ==
    /\ runCreateChallenge(serviceName)
    /\ UNCHANGED <<now, flags, req, client, tally>>

\* the body of exports.createToken, run to completion
runCreateToken(serviceName, challengeHash) ==
    LET cachedValue == CacheGet(cache, serviceName, now)
        r == createTokenResult(serviceName, challengeHash, cachedValue, now)
    IN  /\ cache' = CacheAfterTake(cache, serviceName)
        /\ last' = CallRecord("createToken", serviceName,
                            challengeHash, r.err, 0, r.token, r.expiresIn)
        /\ hs' = IF hs[serviceName].nonce = 0
                 THEN hs
                 ELSE [hs EXCEPT ![serviceName].attempts = Count(@),
                                 ![serviceName].tokens =
                                     IF r.err = NoError THEN Count(@) ELSE @]

\* exports.createToken, called for a request handled as soon as it arrives
createToken(serviceName, challengeHash) ==
    /\ runCreateToken(serviceName, challengeHash)
    /\ UNCHANGED <<now, pending, flags, req, client, tally>>

\* a createToken request arrives and waits for the event loop; the requests
\* of a burst are made for one service name and all arrive before the first
\* of them is handled
receiveTokenRequest(serviceName, challengeHash) ==
    /\ \/ \A p \in pending : p.err = "waiting" /\ p.name = serviceName
       \/ \A p \in pending : p.err # "waiting"
    /\ LET burst == { p \in pending : p.err = "waiting" }
           id == Cardinality(burst) + 1
       IN  /\ id <= MaxPending
           /\ pending' = burst \cup
                { [ id |-> id, name |-> serviceName, hash |-> challengeHash,
                    valid |-> ProofOfOutstanding(hs[serviceName],
                                                 serviceName, challengeHash),
                    err |-> "waiting" ] }
    /\ last' = NoCall
    /\ UNCHANGED <<cache, now, hs, flags, req, client, tally>>

\* the event loop runs createToken for one of the waiting requests
handleTokenRequest(p) ==
    /\ p.err = "waiting"
    /\ runCreateToken(p.name, p.hash)
    /\ pending' = (pending \ {p}) \cup { [p EXCEPT !.err = last'.err] }
    /\ UNCHANGED <<now, flags, req, client, tally>>

\* the check period of the NodeCache deletes the expired entries
cachePurge ==
    /\ \E e \in cache : ~CacheLive(e, now)
    /\ cache' = { e \in cache : CacheLive(e, now) }
    /\ last' = NoCall
    /\ UNCHANGED <<now, hs, pending, flags, req, client, tally>>

\* the clock advances
TickSteps == {60000, 60500}

Tick(d) ==
    /\ now + d <= MaxTicks * 60500
    /\ now' = now + d
    /\ last' = NoCall
    /\ UNCHANGED <<cache, hs, pending, flags, req, client, tally>>

----------------------------------------------------------------------------
(* The request authenticator and the user-accounts routes *)

\* the Authorization header of a request: absent, present with an empty
\* value, or a bearer token
NoHeader == [present |-> FALSE, text |-> "", token |-> NoToken]
EmptyHeader == [present |-> TRUE, text |-> "", token |-> NoToken]
BearerHeader(token) == [present |-> TRUE, text |-> "Bearer", token |-> token]

\* the tokens a caller may present: one the service issued at time 0 for each
\* service account, and one signed with another secret
HeaderTokens ==
    { JwtSign(tokenPayload(s.name, 0), signingSecret, 0) : s \in serviceAccounts }
        \cup { JwtSign(tokenPayload("svc-A", 0), "other-secret", 0) }

Headers == {NoHeader, EmptyHeader} \cup { BearerHeader(k) : k \in HeaderTokens }

\* the roles the identity behind a request may hold
AdminRole == "admin"
RoleSets == { {}, {"visitor"}, {AdminRole} }

\* req.get('Authorization') is truthy
hasAuthorization(header) == header.present /\ header.text # ""

\* the branch exports.authenticate takes: the bearer strategy, the
\* established session, or the 401 response
\* the session looked at before the header
authenticate_SessionFirst(f, header, isAuthenticated) ==
    IF isAuthenticated THEN "session"
    ELSE IF (f.oidc \/ f.apikey) /\ hasAuthorization(header) THEN "bearer"
    ELSE "reject"

\* the last branch calling next() as the session branch does
authenticate_NoReject(f, header, isAuthenticated) ==
    IF (f.oidc \/ f.apikey) /\ hasAuthorization(header) THEN "bearer"
    ELSE "session"

authenticate(f, header, isAuthenticated) ==
    IF (f.oidc \/ f.apikey) /\ hasAuthorization(header) THEN "bearer"
    ELSE IF isAuthenticated THEN "session"
    ELSE "reject"

\* authnBearer.authenticate: the token of the header verifies
bearerAuthenticate(header, t) ==
    bearerVerify(header.token, signingSecret, t).err = "ok"

\* authz.requireRole(role): the Principal attached to the request holds it
requireRole(role, r) == r.via # "none" /\ role \in r.roles

\* the routes of the user-accounts router: method, path, and the handlers
\* in the order they are registered
\* the register route without its role check
routes_OpenRegister ==
    { [method |-> "GET", path |-> "/user-accounts",
       chain |-> <<"authenticate", "requireRole", "retrieveAll">>],
      [method |-> "POST", path |-> "/user-accounts",
       chain |-> <<"authenticate", "requireRole", "create">>],
      [method |-> "GET", path |-> "/user-accounts/:id",
       chain |-> <<"authenticate", "requireRole", "retrieveById">>],
      [method |-> "PUT", path |-> "/user-accounts/:id",
       chain |-> <<"authenticate", "requireRole", "updateFull">>],
      [method |-> "DELETE", path |-> "/user-accounts/:id",
       chain |-> <<"authenticate", "requireRole", "delete">>],
      [method |-> "POST", path |-> "/user-accounts/register",
       chain |-> <<"authenticate", "register">>] }

routes ==
    { [method |-> "GET", path |-> "/user-accounts",
       chain |-> <<"authenticate", "requireRole", "retrieveAll">>],
      [method |-> "POST", path |-> "/user-accounts",
       chain |-> <<"authenticate", "requireRole", "create">>],
      [method |-> "GET", path |-> "/user-accounts/:id",
       chain |-> <<"authenticate", "requireRole", "retrieveById">>],
      [method |-> "PUT", path |-> "/user-accounts/:id",
       chain |-> <<"authenticate", "requireRole", "updateFull">>],
      [method |-> "DELETE", path |-> "/user-accounts/:id",
       chain |-> <<"authenticate", "requireRole", "delete">>],
      [method |-> "POST", path |-> "/user-accounts/register",
       chain |-> <<"authenticate", "requireRole", "register">>] }

NoRequest ==
    [ stage |-> "none", route |-> [method |-> "", path |-> "", chain |-> <<>>],
      pos |-> 0, header |-> NoHeader, session |-> FALSE, roles |-> {},
      via |-> "none", passed |-> <<>>, status |-> 0, handler |-> "none" ]

\* express matches a request to a route and starts its chain
receiveRequest(route, header, session, roles) ==
    /\ req.stage \in {"none", "done"}
    /\ req' = [NoRequest EXCEPT !.stage = "chain", !.route = route, !.pos = 1,
                                !.header = header, !.session = session,
                                !.roles = roles]
    /\ UNCHANGED <<cache, now, hs, last, pending, flags, client, tally>>

\* res.status(code).send(...): the response ends the chain
respond(r, code) == [r EXCEPT !.stage = "done", !.status = code]

\* next(): the chain goes on with the handler that follows
passOn(r, name) == [r EXCEPT !.pos = @ + 1, !.passed = Append(@, name)]

\* the authenticate middleware of the chain runs
runAuthenticate ==
    /\ req.stage = "chain" /\ req.route.chain[req.pos] = "authenticate"
    /\ LET branch == authenticate(flags, req.header, req.session) IN
       req' = IF branch = "bearer"
              THEN IF bearerAuthenticate(req.header, now)
                   THEN passOn([req EXCEPT !.via = "bearer"], "authenticate")
                   ELSE respond([req EXCEPT !.via = "bearer"], 401)
              ELSE IF branch = "session"
              THEN passOn([req EXCEPT !.via = "session"], "authenticate")
              ELSE respond(req, 401)
    /\ UNCHANGED <<cache, now, hs, last, pending, flags, client, tally>>

\* the requireRole(admin) middleware of the chain runs
runRequireRole ==
    /\ req.stage = "chain" /\ req.route.chain[req.pos] = "requireRole"
    /\ req' = IF requireRole(AdminRole, req)
              THEN passOn(req, "requireRole")
              ELSE respond(req, 403)
    /\ UNCHANGED <<cache, now, hs, last, pending, flags, client, tally>>

\* the controller function that ends the chain runs
runHandler ==
    /\ req.stage = "chain"
    /\ req.route.chain[req.pos] \notin {"authenticate", "requireRole"}
    /\ req' = respond([req EXCEPT !.handler = req.route.chain[req.pos]], 200)
    /\ UNCHANGED <<cache, now, hs, last, pending, flags, client, tally>>

----------------------------------------------------------------------------
(* The calling service *)

\* a caller that has kept nothing yet.  challenge, challengeAt: a challenge
\* it received and when; token, tokenAt: a token it received and when;
\* verdict, verdictAt: what the verifier said of the token when it was last
\* presented
NoClient ==
    [ challenge |-> 0, challengeAt |-> 0, token |-> NoToken, tokenAt |-> 0,
      verdict |-> [err |-> "none", serviceName |-> ""], verdictAt |-> 0 ]

\* nothing issued yet
NoTally == [ challenges |-> [n \in ServiceNames |-> 0],
             tokens |-> [n \in ServiceNames |-> 0] ]

\* the caller keeps the challenge createChallenge just returned
keepChallenge ==
    /\ last.op = "createChallenge" /\ last.err = NoError
    /\ client' = [client EXCEPT !.challenge = last.challenge,
                                !.challengeAt = now]
    /\ UNCHANGED <<cache, now, hs, last, pending, flags, req, tally>>

\* the caller keeps the token createToken just returned
keepToken ==
    /\ last.op = "createToken" /\ last.err = NoError
    /\ client' = [client EXCEPT !.token = last.token, !.tokenAt = now,
                                !.verdict = NoClient.verdict, !.verdictAt = 0]
    /\ UNCHANGED <<cache, now, hs, last, pending, flags, req, tally>>

\* the caller presents the token it keeps: the verifier checks it against
\* the signing secret and the clock, and nothing else
presentToken ==
    /\ client.token # NoToken
    /\ client' = [client EXCEPT
                    !.verdict = bearerVerify(client.token, signingSecret, now),
                    !.verdictAt = now]
    /\ UNCHANGED <<cache, now, hs, last, pending, flags, req, tally>>

\* exports.createChallenge, with the challenges issued for the name counted
createChallengeCounted(serviceName) ==
    /\ tally.challenges[serviceName] < MaxIssued
    /\ runCreateChallenge(serviceName)
    /\ tally' = [tally EXCEPT !.challenges[serviceName] =
                    IF last'.err = NoError THEN @ + 1 ELSE @]
    /\ UNCHANGED <<now, flags, req, client>>

\* exports.createToken, with the tokens issued for the name counted
createTokenCounted(serviceName, challengeHash) ==
    /\ tally.tokens[serviceName] < MaxIssued
    /\ runCreateToken(serviceName, challengeHash)
    /\ tally' = [tally EXCEPT !.tokens[serviceName] =
                    IF last'.err = NoError THEN @ + 1 ELSE @]
    /\ UNCHANGED <<now, pending, flags, req, client>>

\* the clock advances by d milliseconds, not beyond the horizon
Advance(d, horizon) ==
    /\ now + d <= horizon
    /\ now' = now + d
    /\ last' = NoCall
    /\ UNCHANGED <<cache, hs, pending, flags, req, client, tally>>

----------------------------------------------------------------------------
(* Specifications *)

Init ==
    /\ cache = {}
    /\ now = 0
    /\ hs = [n \in ServiceNames |-> NoHandshake]
    /\ last = NoCall
    /\ pending = {}
    /\ flags = [oidc |-> FALSE, apikey |-> TRUE]
    /\ req = NoRequest
    /\ client = NoClient
    /\ tally = NoTally

Next ==
    \/ \E serviceName \in ServiceNames : createChallenge(serviceName)
    \/ \E serviceName \in ServiceNames, challengeHash \in ChallengeHashes :
            createToken(serviceName, challengeHash)
    \/ \E d \in TickSteps : Tick(d)
    \/ cachePurge

Spec == Init /\ [][Next]_vars

\* createToken requests that wait for one another, handled in any order.
\* The race is for the challenge of one service.
RaceNames == {"svc-A"}

\* what the racing requests carry: the proof of any nonce under the secret
\* of the service, or a hash that is the proof of nothing
RaceHashes ==
    { Hmac(s.apikey, n) : s \in { a \in serviceAccounts : a.name \in RaceNames },
                         n \in generateNonce }
        \cup {WrongDigest}

NextRace ==
    \/ \E serviceName \in RaceNames : createChallenge(serviceName)
    \/ \E serviceName \in RaceNames, challengeHash \in RaceHashes :
            receiveTokenRequest(serviceName, challengeHash)
    \/ \E p \in pending : handleTokenRequest(p)
    \/ \E d \in TickSteps : Tick(d)
    \/ cachePurge

SpecRace == Init /\ [][NextRace]_vars

\* requests to the user-accounts routes, under every setting of the enable
\* flags
InitHttp ==
    /\ cache = {}
    /\ now = 0
    /\ hs = [n \in ServiceNames |-> NoHandshake]
    /\ last = NoCall
    /\ pending = {}
    /\ flags \in [oidc : BOOLEAN, apikey : BOOLEAN]
    /\ req = NoRequest
    /\ client = NoClient
    /\ tally = NoTally

NextHttp ==
    \/ \E route \in routes, header \in Headers, session \in BOOLEAN,
          roles \in RoleSets : receiveRequest(route, header, session, roles)
    \/ runAuthenticate
    \/ runRequireRole
    \/ runHandler
    \/ \E d \in TickSteps : Tick(d)

SpecHttp == InitHttp /\ [][NextHttp]_vars

\* a caller of one service that keeps its token and presents it while the
\* clock goes past the token's expiry; the clock starts on a whole second
\* or between two
VerifyStarts == {0, 500}

VerifySteps == {29500, 30000, 30400, 31000}

InitVerify ==
    /\ cache = {}
    /\ now \in VerifyStarts
    /\ hs = [n \in ServiceNames |-> NoHandshake]
    /\ last = NoCall
    /\ pending = {}
    /\ flags = [oidc |-> FALSE, apikey |-> TRUE]
    /\ req = NoRequest
    /\ client = NoClient
    /\ tally = NoTally

NextVerify ==
    \/ \E serviceName \in RaceNames : createChallenge(serviceName)
    \/ \E serviceName \in RaceNames, challengeHash \in RaceHashes :
            createToken(serviceName, challengeHash)
    \/ keepToken
    \/ presentToken
    \/ \E d \in VerifySteps : Advance(d, MaxTicks * 31500)

SpecVerify == InitVerify /\ [][NextVerify]_vars

\* a caller of one service that asks for a challenge more than once while
\* the clock goes past the deadline of the first one and of the second
TtlSteps == {30000, 60000, 60500}

NextTtl ==
    \/ \E serviceName \in RaceNames : createChallenge(serviceName)
    \/ keepChallenge
    \/ \E serviceName \in RaceNames, challengeHash \in RaceHashes :
            createToken(serviceName, challengeHash)
    \/ \E d \in TtlSteps : Advance(d, (MaxTicks + 1) * 60500)
    \/ cachePurge

SpecTtl == Init /\ [][NextTtl]_vars

\* the service with the successful calls counted per name.  The callers
\* send the proof of the challenge issued last for either service, or a hash
\* that is the proof of nothing.
IssuedProofs ==
    { Hmac(s.apikey, hs[s.name].nonce) : s \in serviceAccounts } \cup {WrongDigest}

\* the names the counted calls are made for: a service account, and a name
\* that is none
CountNames == {"svc-A", "SVC-A"}

NextCount ==
    \/ \E serviceName \in CountNames : createChallengeCounted(serviceName)
    \/ \E serviceName \in CountNames, challengeHash \in IssuedProofs :
            createTokenCounted(serviceName, challengeHash)
    \/ \E d \in TickSteps : Tick(d)
    \/ cachePurge

SpecCount == Init /\ [][NextCount]_vars

\* the service under a clock that keeps advancing and a NodeCache whose
\* periodic check keeps running.  A challenge is issued only while the clock
\* of the model can still pass its deadline.
LiveHorizon == (MaxTicks + 2) * 60500

issueChallenge(serviceName) ==
    /\ now + 2 * challengeTtl * 1000 <= LiveHorizon
    /\ createChallenge(serviceName)

NextLive ==
    \/ \E serviceName \in RaceNames : issueChallenge(serviceName)
    \/ \E serviceName \in RaceNames, challengeHash \in RaceHashes :
            createToken(serviceName, challengeHash)
    \/ \E d \in TickSteps : Advance(d, LiveHorizon)
    \/ cachePurge

SpecLive ==
    /\ Init /\ [][NextLive]_vars
    /\ WF_vars(\E d \in TickSteps : Advance(d, LiveHorizon))
    /\ WF_vars(cachePurge)

----------------------------------------------------------------------------
(* Properties of the challenge / token service *)

Registered == { s.name : s \in serviceAccounts }

ApikeyOf(S) == (CHOOSE s \in serviceAccounts : s.name = S).apikey

\* the proof of the challenge issued last for S, under the secret of S
Proof(S) == Hmac(ApikeyOf(S), hs[S].nonce)

\* the latest step was a createToken call for S
TokenCall(S) == last.op = "createToken" /\ last.name = S

\* a challenge was issued for S and, at this instant, is not older than its ttl
InTtl(S) == hs[S].nonce # 0 /\ now <= hs[S].at + challengeTtl * 1000

\* C1: after createChallenge(S) returned a nonce, the first createToken call
\* for S that carries the HMAC of that nonce under the secret of S, made
\* within the ttl, succeeds; every later createToken call for S carrying that
\* proof, with no new createChallenge(S) in between, fails with 'Challenge
\* not found'; so one challenge yields at most one token.
C1_RedeemOnce ==
    \A S \in Registered :
        /\ hs[S].tokens <= 1
        /\ (TokenCall(S) /\ last.hash = Proof(S) /\ hs[S].attempts = 1 /\ InTtl(S))
                => (last.err = NoError /\ hs[S].tokens = 1)
        /\ (TokenCall(S) /\ last.hash = Proof(S) /\ hs[S].attempts >= 2)
                => last.err = challengeNotFound

\* a replay: the second createToken call with the correct proof, in the ttl,
\* after the first one succeeded
C1_Witness ==
    \E S \in Registered :
        /\ TokenCall(S) /\ last.hash = Proof(S) /\ InTtl(S)
        /\ hs[S].attempts = 2 /\ hs[S].tokens = 1
        /\ last.err = challengeNotFound

\* C2: a createToken(S, h) call that meets a live challenge with h different
\* from the expected HMAC fails with 'Invalid challenge hash'; every further
\* createToken(S, *) call before a new createChallenge(S) fails with
\* 'Challenge not found'; after any createToken(S, *) call the cache holds no
\* entry for S.
C2_FailedAttemptConsumes ==
    \A S \in ServiceNames :
        TokenCall(S) =>
            /\ \A e \in cache : e.k # S
            /\ (S \in Registered /\ hs[S].attempts = 1 /\ InTtl(S)
                    /\ last.hash # Proof(S))
                    => last.err = invalidChallengeHash
            /\ (hs[S].attempts >= 2) => last.err = challengeNotFound

\* the retry with the correct proof, in the ttl, after a failed first attempt
C2_Witness ==
    \E S \in Registered :
        /\ TokenCall(S) /\ last.hash = Proof(S) /\ InTtl(S)
        /\ hs[S].attempts = 2 /\ hs[S].tokens = 0
        /\ last.err = challengeNotFound

\* C4: createChallenge for a name that is not exactly the name of a
\* configured service account fails with 'Service not found' and leaves the
\* cache as it was; the cache never holds an entry under such a name.
C4_UnknownService ==
    [][ (last'.op = "createChallenge" /\ last'.name \notin Registered)
            => /\ last'.err = serviceNotFound
               /\ cache' = cache
               /\ \A e \in cache' : e.k \in Registered ]_vars

\* the call made with the name of a service in another case, while the cache
\* holds a challenge of that service
C4_Witness ==
    /\ last.op = "createChallenge" /\ last.name = "SVC-A"
    /\ last.err = serviceNotFound
    /\ \E e \in cache : e.k = "svc-A"

\* C5: the cache holds at most one challenge per service name; a successful
\* createChallenge(S) leaves exactly the new challenge in the cache for S,
\* whatever it found there; a token is issued for S only to the proof of the
\* nonce issued last, and the proof of any other nonce meeting the live
\* challenge is rejected.
C5_OneChallengePerService ==
    /\ \A e1, e2 \in cache : e1.k = e2.k => e1 = e2
    /\ \A S \in Registered :
        /\ (last.op = "createChallenge" /\ last.name = S /\ last.err = NoError)
            => { e \in cache : e.k = S } =
                    { [k |-> S,
                       v |-> [challenge |-> last.challenge, apikey |-> ApikeyOf(S)],
                       t |-> now + challengeTtl * 1000] }
        /\ (TokenCall(S) /\ last.err = NoError) => last.hash = Proof(S)
        /\ (TokenCall(S) /\ hs[S].attempts = 1 /\ InTtl(S)
                /\ \E n \in generateNonce :
                        n # hs[S].nonce /\ last.hash = Hmac(ApikeyOf(S), n))
            => last.err = invalidChallengeHash

\* a second createChallenge(S) that found the first, unredeemed challenge
\* live in the cache and issued a different nonce
C5_Witness ==
    \E S \in Registered :
        /\ last.op = "createChallenge" /\ last.name = S /\ last.err = NoError
        /\ last.replaced # 0 /\ last.replaced # last.challenge
        /\ hs[S].nonce = last.challenge

\* C6: a createToken(S, proof) call made more than 60 seconds after the most
\* recent createChallenge(S) fails with 'Challenge not found', whatever the
\* proof and whether or not the expired entry was purged.
C6_ExpiredNotRedeemable ==
    \A S \in ServiceNames :
        (TokenCall(S) /\ hs[S].nonce # 0 /\ now > hs[S].at + challengeTtl * 1000)
            => last.err = challengeNotFound

\* the first createToken call for S, with the correct proof, past the ttl
C6_Witness ==
    \E S \in Registered :
        /\ TokenCall(S) /\ last.hash = Proof(S) /\ hs[S].attempts = 1
        /\ now > hs[S].at + challengeTtl * 1000
        /\ last.err = challengeNotFound

\* C10: a successful createToken(S, proof) returns a token whose payload has
\* serviceName = S and exp = issuance time + tokenTimeout, with expiresIn =
\* tokenTimeout; verifying the token at once yields the Principal S.
C10_TokenPayload ==
    \A S \in ServiceNames :
        (TokenCall(S) /\ last.err = NoError) =>
            /\ S \in Registered /\ hs[S].nonce # 0
            /\ last.token.serviceName = S
            /\ last.token.exp = Seconds(now) + tokenTimeout
            /\ last.expiresIn = tokenTimeout
            /\ bearerVerify(last.token, signingSecret, now) =
                    [err |-> "ok", serviceName |-> S]

\* a token issued at a time that is not a whole number of seconds
C10_Witness ==
    /\ last.op = "createToken" /\ last.err = NoError
    /\ now % 1000 # 0
    /\ last.token.exp * 1000 < now + tokenTimeout * 1000

\* the answered requests of the burst made for S since its last challenge
Answered(S) == { p \in pending : p.name = S /\ p.err # "waiting" }

\* C3: when two createToken requests for S, both carrying the proof of the
\* one outstanding challenge, wait together and are handled in either order
\* within the ttl, exactly one returns a token and the other fails with
\* 'Challenge not found'; one challenge never yields two tokens.
C3_RaceOneWinner ==
    \A S \in Registered :
        /\ Cardinality({ p \in Answered(S) : p.err = NoError }) <= 1
        /\ \A r1, r2 \in Answered(S) :
            (r1 # r2 /\ r1.valid /\ r2.valid /\ Answered(S) = {r1, r2} /\ InTtl(S))
                => /\ {r1.err, r2.err} = {NoError, challengeNotFound}
                   /\ hs[S].tokens = 1

\* the two requests were handled in the order opposite to their arrival
C3_Witness ==
    \E S \in Registered : \E r1, r2 \in Answered(S) :
        /\ r1.id < r2.id /\ r1.valid /\ r2.valid /\ InTtl(S)
        /\ r1.err = challengeNotFound /\ r2.err = NoError

----------------------------------------------------------------------------
(* Properties of the request authenticator and of the routes *)

\* a request is in its chain or has been answered
InFlight == req.stage \in {"chain", "done"}

\* C7: a request with no Authorization header and no established session is
\* answered by authenticate with 401, under every setting of the enable
\* flags: next() is not called, so neither the role check nor the handler run.
C7_NoCredentialRejected ==
    (InFlight /\ ~req.header.present /\ ~req.session) =>
        /\ req.passed = <<>> /\ req.via = "none" /\ req.handler = "none"
        /\ req.stage = "chain" => req.pos = 1
        /\ req.stage = "done" => req.status = 401

\* such a request answered while both bearer strategies are enabled
C7_Witness ==
    /\ req.stage = "done" /\ ~req.header.present /\ ~req.session
    /\ flags.oidc /\ flags.apikey
    /\ req.status = 401

C9_AdminOnly ==
    /\ req.handler # "none" =>
        /\ req.passed = <<"authenticate", "requireRole">>
        /\ req.via # "none" /\ AdminRole \in req.roles
        /\ req.handler = req.route.chain[Len(req.route.chain)]
    /\ (req.stage = "done" /\ req.via # "none" /\ Len(req.passed) >= 1
            /\ AdminRole \notin req.roles)
        => (req.status = 403 /\ req.handler = "none"
                /\ req.passed = <<"authenticate">>)

\* an authenticated visitor turned away from the register route
C9_Witness ==
    /\ req.stage = "done" /\ req.route.path = "/user-accounts/register"
    /\ req.via = "session" /\ req.roles = {"visitor"}
    /\ req.status = 403 /\ req.handler = "none"

----------------------------------------------------------------------------
(* Properties of issued tokens *)

\* the second a token was issued in, and the last second it is valid in
IssuedAt == Seconds(client.tokenAt)
ValidUntil == IssuedAt + tokenTimeout

Forged(header) ==
    header.present /\ header.text # "" /\ header.token.sig # signingSecret

----------------------------------------------------------------------------
(* Further properties of the challenge / token service *)

\* the cache holds a live challenge under the name S
Outstanding(S) == \E e \in cache : e.k = S /\ CacheLive(e, now)

\* C13: a createToken(S, h) call made while no challenge is outstanding for
\* S (none was issued, the last one was taken by an earlier createToken call,
\* or its ttl has passed) fails with 'Challenge not found' for every h, also
\* for a name S that is no configured service account; 'Invalid challenge
\* hash' is returned only if a live challenge of S was in the cache when the
\* call was made.
C13_AbsenceBeforeHash ==
    [][ last'.op = "createToken" =>
            LET S == last'.name IN
            /\ ~Outstanding(S) => last'.err = challengeNotFound
            /\ (hs[S].nonce = 0 \/ hs[S].attempts >= 1
                    \/ now > hs[S].at + challengeTtl * 1000)
                    => last'.err = challengeNotFound
            /\ last'.err = invalidChallengeHash =>
                    /\ Outstanding(S) /\ S \in Registered
                    /\ hs[S].nonce # 0 /\ hs[S].attempts = 0 /\ InTtl(S) ]_vars

\* a call under a name that is no service account, carrying the proof of the
\* live challenge of the service whose name differs from it in case only
C13_Witness ==
    /\ TokenCall("SVC-A") /\ last.err = challengeNotFound
    /\ Outstanding("svc-A") /\ last.hash = Proof("svc-A")

\* the cache entries of the name B
EntriesOf(c, B) == { e \in c : e.k = B }

\* C14: a createChallenge(A) or createToken(A, *) call, whatever its
\* outcome, leaves the cache entry of every other name B as it was: it does
\* not create, change, take or extend it; so what B's handshake has come to
\* (its challenge, its deadline, whether it was taken) is untouched by calls
\* made for A in between.
C14_ServicesIndependent ==
    [][ last'.op \in {"createChallenge", "createToken"} =>
            \A B \in ServiceNames \ {last'.name} :
                /\ EntriesOf(cache', B) = EntriesOf(cache, B)
                /\ hs'[B] = hs[B] ]_vars

\* a token was just issued for one service while the challenge of the other,
\* issued before, is still outstanding and untried
C14_Witness ==
    /\ TokenCall("svc-A") /\ last.err = NoError
    /\ Outstanding("svc-B") /\ hs["svc-B"].attempts = 0

----------------------------------------------------------------------------
(* Further properties of the request authenticator *)

C17_ReissueResetsDeadline ==
    \A S \in Registered :
        /\ (last.op = "createChallenge" /\ last.name = S /\ last.err = NoError)
            => /\ hs[S].at = now
               /\ \A e \in EntriesOf(cache, S) : e.t = now + challengeTtl * 1000
        /\ (TokenCall(S) /\ last.hash = Proof(S) /\ hs[S].attempts = 1)
            => /\ now <= hs[S].at + challengeTtl * 1000 => last.err = NoError
               /\ now > hs[S].at + challengeTtl * 1000
                        => last.err = challengeNotFound

\* the caller kept the challenge it got at t1, got another one at t2 while
\* the first was in its ttl, and redeemed that one after t1 + 60 s
C17_Witness ==
    \E S \in Registered :
        /\ client.challenge # 0
        /\ client.challengeAt < hs[S].at
        /\ hs[S].at < client.challengeAt + challengeTtl * 1000
        /\ now > client.challengeAt + challengeTtl * 1000
        /\ TokenCall(S) /\ last.err = NoError

\* the times at which the clock of the model can stand
ClockValues ==
    { i * 60000 + j * 60500 : i \in 0 .. MaxTicks + 2, j \in 0 .. MaxTicks + 2 }

\* the cache holds the entry of the challenge n issued for S at time t
Holds(S, n, t) ==
    hs[S].nonce = n /\ hs[S].at = t
        /\ \E e \in cache : e.k = S /\ e.v.challenge = n

\* C18: while the clock advances and the cache's periodic check runs, every
\* entry a createChallenge call put into the cache is eventually out of it:
\* taken by a createToken call, replaced, or deleted once its ttl has passed;
\* no challenge stays redeemable forever.
C18_ChallengeLeavesCache ==
    \A S \in Registered, n \in generateNonce, t \in ClockValues :
        Holds(S, n, t) ~> ~Holds(S, n, t)

\* a challenge that no createToken call was made for is out of the cache
C18_Witness ==
    \E S \in Registered :
        /\ hs[S].nonce # 0 /\ hs[S].attempts = 0
        /\ EntriesOf(cache, S) = {}
        /\ now > hs[S].at + challengeTtl * 1000

\* C19: a createToken call returns a token asserting S only if, when it took
\* the entry, the cache held a live challenge of S and the hash it was given
\* is the HMAC of that entry's nonce under the secret stored with it, the
\* secret of S; the proof of a superseded nonce, of a nonce of another
\* service, or under the secret of another service yields no token for S.
C19_TokenOnlyForProof ==
    [][ (last'.op = "createToken" /\ last'.err = NoError) =>
            LET S == last'.name IN
            /\ S \in Registered
            /\ last'.token.serviceName = S
            /\ \E e \in cache :
                /\ e.k = S /\ CacheLive(e, now)
                /\ e.v.apikey = ApikeyOf(S) /\ e.v.challenge = hs[S].nonce
                /\ last'.hash = Hmac(e.v.apikey, e.v.challenge)
            /\ \A a \in serviceAccounts, n \in generateNonce :
                (a.name # S \/ n # hs[S].nonce) => last'.hash # Hmac(a.apikey, n) ]_vars

\* a token issued for one service while the other service's challenge, with
\* another nonce, is live in the cache
C19_Witness ==
    /\ TokenCall("svc-B") /\ last.err = NoError
    /\ Outstanding("svc-A") /\ hs["svc-A"].nonce # hs["svc-B"].nonce

\* C20: for every name S the number of tokens issued for S is at most the
\* number of successful createChallenge(S) calls, and no token is issued,
\* nor a challenge, for a name that is no configured service account.
C20_TokensWithinChallenges ==
    \A S \in ServiceNames :
        /\ tally.tokens[S] <= tally.challenges[S]
        /\ S \notin Registered => tally.tokens[S] = 0 /\ tally.challenges[S] = 0
        /\ (TokenCall(S) /\ last.err = NoError) => S \in Registered

\* every challenge issued for a service was redeemed, more than once over,
\* and a call under a name that is no service account has just failed
C20_Witness ==
    /\ tally.challenges["svc-A"] >= 2
    /\ tally.tokens["svc-A"] = tally.challenges["svc-A"]
    /\ last.name = "SVC-A" /\ last.err # NoError

====
